---------------------------- MODULE Spec2Model ----------------------------
(***************************************************************************)
(* Account statement service of the ledger posting engine                  *)
(* (postings-logic/src/services/account_stmt_service.rs): read_stmt,       *)
(* create_stmt and close_stmt over the statement, posting, posting-line    *)
(* and posting-trace stores.  Every storage access is an await point, so   *)
(* a call is a sequence of steps of its caller; Spec runs one caller, and  *)
(* SpecConc runs two callers whose steps interleave.                       *)
(***************************************************************************)
EXTENDS Integers, Sequences, FiniteSets, TLC

VARIABLES
    lines,      \* posting-line store (written by the posting service only)
    stmts,      \* statement store: id -> row
    postings,   \* posting store: id -> row
    traces,     \* posting-trace store, in the order of the saves
    frame       \* per caller: the call in flight or completed last (position, locals, result)

vars == <<lines, stmts, postings, traces, frame>>

-----------------------------------------------------------------------------
(* Bounds *)

MaxTime == 2

MaxId == 4

\* the reference times callers ask for
Times == 1..MaxTime

\* the effective times of posting lines
LineTimes == 0..MaxTime

Procs == {"p1", "p2"}

SeqProcs == {"p1"}

(* Option<T> *)
None == <<>>

Some(x) == <<x>>

IsSome(o) == o # <<>>

Unwrap(o) == o[1]

-----------------------------------------------------------------------------
(* The directories and the posting-line store *)

Ledgers == {"l1", "l2"}

\* the account directory: a1 and a2 are on record, a3 is not
AccountIds == {"a1", "a2", "a3"}

\* the accounts the callers ask statements for
Asked == {"a1", "a3"}

load_ledger_account(id) ==
    CASE id = "a1" -> Some([id |-> "a1", ledger_id |-> "l1"])
      [] id = "a2" -> Some([id |-> "a2", ledger_id |-> "l2"])
      [] OTHER -> None

\* the ledger directory; "l0" is a ledger id with no record
ledger_find_by_id(id) == IF id \in Ledgers THEN Some([id |-> id, coa_id |-> "coa"]) ELSE None

\* the LedgerAccount value a caller passes
LedgerAccountBO(id) ==
    [id |-> id, ledger |-> IF id = "a2" THEN "l2" ELSE "l1"]

\* the line of account a at time t: one line per account and time
Line(a, t) ==
    [id |-> <<a, t>>, account_id |-> a, pst_time |-> t,
     debit_amount |-> t + 1, credit_amount |-> 2 * t + 3,
     opr_id |-> <<"opr", t>>, hash |-> <<"h", a, t>>]

\* the content hash of a posting (hash_utils::hash_serialize): a function of the
\* posting's content, the antecedent link included, the own hash excluded
PostingHash(p) ==
    <<p.id, p.record_time, p.pst_time, p.pst_type, p.ledger_id,
      p.antecedent_id, p.antecedent_hash>>

\* the ordinary postings a ledger holds before any statement is closed: one per
\* effective time in T, recorded at that time, each chained to the one before
OrdinaryId(l, t) == IF l = "l1" THEN 0 - (2 * t + 1) ELSE 0 - (2 * t + 2)

RECURSIVE OrdinaryPosting(_, _, _)
OrdinaryPosting(l, T, t) ==
    LET before == {u \in T : u < t}
        ant == IF before = {} THEN None
               ELSE Some(OrdinaryPosting(l, T, CHOOSE u \in before : \A v \in before : v <= u))
        content == [id |-> OrdinaryId(l, t), record_time |-> t, pst_time |-> t,
                    pst_type |-> "BusiTx", ledger_id |-> l, lines |-> 1,
                    antecedent_id |-> IF IsSome(ant) THEN Some(Unwrap(ant).id) ELSE None,
                    antecedent_hash |-> IF IsSome(ant) THEN Unwrap(ant).hash ELSE None]
    IN content @@ [hash |-> Some(PostingHash(content))]

-----------------------------------------------------------------------------
(* Sums and orderings *)

RECURSIVE SumDebit(_)
SumDebit(S) ==
    IF S = {} THEN 0
    ELSE LET x == CHOOSE y \in S : TRUE
         IN x.debit_amount + SumDebit(S \ {x})

RECURSIVE SumCredit(_)
SumCredit(S) ==
    IF S = {} THEN 0
    ELSE LET x == CHOOSE y \in S : TRUE
         IN x.credit_amount + SumCredit(S \ {x})

\* a set of lines as the collection a query returns: ascending effective time
RECURSIVE Ordered(_)
Ordered(S) ==
    IF S = {} THEN <<>>
    ELSE LET x == CHOOSE y \in S : \A z \in S : y.pst_time <= z.pst_time
         IN <<x>> \o Ordered(S \ {x})

-----------------------------------------------------------------------------
(* The stores' queries and writes *)

\* save: insert, or replace the row of the same id
Save(store, row) ==
    [i \in DOMAIN store \cup {row.id} |-> IF i = row.id THEN row ELSE store[i]]

Rows(store) == {store[i] : i \in DOMAIN store}

stmt_find_by_id(id) == IF id \in DOMAIN stmts THEN Some(stmts[id]) ELSE None

posting_find_by_id(id) == IF id \in DOMAIN postings THEN Some(postings[id]) ELSE None

trace_find_by_id(id) ==
    LET hit == {i \in 1..Len(traces) : traces[i].id = id}
    IN IF hit = {} THEN None ELSE Some(traces[CHOOSE i \in hit : TRUE])

\* the statements of the account with the given status and effective time
\* strictly before ref_time
StmtsBefore(account_id, status, ref_time) ==
    {r \in Rows(stmts) : r.account_id = account_id /\ r.stmt_status = status
                          /\ r.pst_time < ref_time}

\* the answers the statement store may give: the latest such statement (any of
\* them when several share the latest time), or none
find_first_by_account_and_status_and_pst_time_less_than_ordered(account_id, status, ref_time) ==
    LET C == StmtsBefore(account_id, status, ref_time)
    IN IF C = {} THEN {None}
       ELSE {Some(r) : r \in {x \in C : \A y \in C : y.pst_time <= x.pst_time}}

find_by_account_and_pst_time_between(account_id, from, to) ==
    Ordered({l \in lines : l.account_id = account_id /\ from <= l.pst_time /\ l.pst_time <= to})

find_by_account_and_pst_time_less_than_equal(account_id, ref_time) ==
    Ordered({l \in lines : l.account_id = account_id /\ l.pst_time <= ref_time})

\* the answers the posting store may give: the ledger's posting recorded last
find_first_by_ledger_order_by_record_time_desc(ledger_id) ==
    LET C == {r \in Rows(postings) : r.ledger_id = ledger_id}
    IN IF C = {} THEN {None}
       ELSE {Some(r) : r \in {x \in C : \A y \in C : y.record_time <= x.record_time}}

-----------------------------------------------------------------------------
(* Mappers *)

\* every status is returned as SIMULATED
StatusToBO_Simulated(s) == "SIMULATED"

\* the match of stmt(): storage status to domain status
StatusToBO(s) == IF s = "Simulated" THEN "SIMULATED" ELSE "CLOSED"

StatusToModel(s) == IF s = "SIMULATED" THEN "Simulated" ELSE "Closed"

\* AccountStmtMapper::from_bo: the row of a domain statement
AccountStmtMapper_from_bo(bo) ==
    [id |-> bo.financial_stmt.id,
     account_id |-> bo.account.id,
     youngest_pst_id |-> IF IsSome(bo.youngest_pst) THEN Some(Unwrap(bo.youngest_pst).id) ELSE None,
     total_debit |-> bo.total_debit,
     total_credit |-> bo.total_credit,
     posting_id |-> IF IsSome(bo.financial_stmt.posting)
                    THEN Some(Unwrap(bo.financial_stmt.posting).id) ELSE None,
     pst_time |-> bo.financial_stmt.pst_time,
     stmt_status |-> StatusToModel(bo.financial_stmt.stmt_status),
     latest_pst_id |-> IF IsSome(bo.financial_stmt.latest_pst)
                       THEN Some(Unwrap(bo.financial_stmt.latest_pst).id) ELSE None,
     stmt_seq_nbr |-> bo.financial_stmt.stmt_seq_nbr]

\* PostingMapper::to_model: the row of a domain posting
PostingMapper_to_model(bo) ==
    [id |-> bo.id, record_time |-> bo.record_time, pst_time |-> bo.pst_time,
     pst_type |-> bo.pst_type, ledger_id |-> bo.ledger.id, lines |-> Len(bo.lines),
     antecedent_id |-> bo.hash_record.antecedent_id,
     antecedent_hash |-> bo.hash_record.antecedent_hash,
     hash |-> bo.hash_record.hash]

\* hash_serialize of a domain posting
hash_serialize(bo) == PostingHash(PostingMapper_to_model(bo))

-----------------------------------------------------------------------------
(* LedgerAccountMapper (mappers/ledger_account.rs): a variant is the pair of
   the side it lives on, "db" for storage and "api" for the domain, and its name *)

DbBalanceSide == {<<"db", "Dr">>, <<"db", "Cr">>, <<"db", "DrCr">>}

ApiBalanceSide == {<<"api", "Dr">>, <<"api", "Cr">>, <<"api", "DrCr">>}

CategoryNames == {"RE", "EX", "AS", "LI", "EQ", "NOOP", "NORE", "NOEX"}

DbAccountCategory == {<<"db", n>> : n \in CategoryNames}

ApiAccountCategory == {<<"api", n>> : n \in CategoryNames}

\* lines 14-18
balance_side_to_bo(v) ==
    CASE v = <<"db", "Dr">> -> <<"api", "Dr">>
      [] v = <<"db", "Cr">> -> <<"api", "Cr">>
      [] v = <<"db", "DrCr">> -> <<"api", "DrCr">>

\* lines 19-28
category_to_bo(v) ==
    CASE v = <<"db", "RE">> -> <<"api", "RE">>
      [] v = <<"db", "EX">> -> <<"api", "EX">>
      [] v = <<"db", "AS">> -> <<"api", "AS">>
      [] v = <<"db", "LI">> -> <<"api", "LI">>
      [] v = <<"db", "EQ">> -> <<"api", "EQ">>
      [] v = <<"db", "NOOP">> -> <<"api", "NOOP">>
      [] v = <<"db", "NORE">> -> <<"api", "NORE">>
      [] v = <<"db", "NOEX">> -> <<"api", "NOEX">>

\* lines 37-41
balance_side_to_model(w) ==
    CASE w = <<"api", "Dr">> -> <<"db", "Dr">>
      [] w = <<"api", "Cr">> -> <<"db", "Cr">>
      [] w = <<"api", "DrCr">> -> <<"db", "DrCr">>

\* the two NO-result categories are stored as one
category_to_model_Merged(w) ==
    <<"db", IF w[2] = "NOEX" THEN "NORE" ELSE w[2]>>

\* lines 42-51
category_to_model(w) ==
    CASE w = <<"api", "RE">> -> <<"db", "RE">>
      [] w = <<"api", "EX">> -> <<"db", "EX">>
      [] w = <<"api", "AS">> -> <<"db", "AS">>
      [] w = <<"api", "LI">> -> <<"db", "LI">>
      [] w = <<"api", "EQ">> -> <<"db", "EQ">>
      [] w = <<"api", "NOOP">> -> <<"db", "NOOP">>
      [] w = <<"api", "NORE">> -> <<"db", "NORE">>
      [] w = <<"api", "NOEX">> -> <<"db", "NOEX">>

\* lines 7-29
LedgerAccountMapper_to_bo(model, ledger_bo, coa_bo, parent_bo) ==
    [id |-> model.id, ledger |-> ledger_bo, parent |-> parent_bo, coa |-> coa_bo,
     balance_side |-> balance_side_to_bo(model.balance_side),
     category |-> category_to_bo(model.category)]

\* lines 31-53
LedgerAccountMapper_to_model(bo) ==
    [id |-> bo.id, ledger_id |-> bo.ledger.id,
     parent_id |-> IF IsSome(bo.parent) THEN Some(Unwrap(bo.parent).id) ELSE None,
     coa_id |-> bo.coa.id,
     balance_side |-> balance_side_to_model(bo.balance_side),
     category |-> category_to_model(bo.category)]

\* the account records and the domain accounts the mapper is given
LedgerAccountModels ==
    [id : {"a1"}, ledger_id : {"l1"}, parent_id : {None}, coa_id : {"coa"},
     balance_side : DbBalanceSide, category : DbAccountCategory]

LedgerAccountBOs ==
    [id : {"a1"}, ledger : {[id |-> "l1"]}, parent : {None}, coa : {[id |-> "coa"]},
     balance_side : ApiBalanceSide, category : ApiAccountCategory]

-----------------------------------------------------------------------------
(* The callers *)

\* a call that fails before it has read anything keeps no arguments
Idle ==
    [pc |-> "idle", op |-> "none", account |-> None, ref_time |-> 0, arg |-> None,
     stmt |-> None, todo |-> <<>>, uuids |-> <<>>, closing_posting |-> None,
     outcome |-> "none", bo |-> None,
     pre |-> None, baseline |-> None, gathered |-> <<>>, again |-> None, sealed |-> None]

InitLines == {{Line("a1", t) : t \in T} \cup {Line("a2", 1)} : T \in SUBSET LineTimes}

InitPostings(L) ==
    LET T1 == {l.pst_time : l \in {x \in L : x.account_id = "a1"}}
        T2 == {l.pst_time : l \in {x \in L : x.account_id = "a2"}}
        P == {OrdinaryPosting("l1", T1, t) : t \in T1} \cup {OrdinaryPosting("l2", T2, t) : t \in T2}
    IN [i \in {r.id : r \in P} |-> CHOOSE r \in P : r.id = i]

Init ==
    /\ lines \in InitLines
    /\ stmts = <<>>
    /\ postings = InitPostings(lines)
    /\ traces = <<>>
    /\ frame = [p \in Procs |-> Idle]

Free(p) == frame[p].pc \in {"idle", "done"}

Snapshot == [stmts |-> stmts, postings |-> postings, traces |-> traces]

\* the call of p ends with the given outcome and result
Done(p, f, outcome, bo) ==
    frame' = [frame EXCEPT ![p] = [f EXCEPT !.pc = "done", !.outcome = outcome, !.bo = bo]]

-----------------------------------------------------------------------------
(* Uuid::new_v4() and Utc::now() *)

Range(q) == {q[i] : i \in 1..Len(q)}

\* the ids a call in flight holds
FrameIds(f) ==
    IF f.pc \in {"idle", "done"} THEN {}
    ELSE (IF IsSome(f.stmt) THEN {Unwrap(f.stmt).id} ELSE {})
         \cup Range(f.uuids)
         \cup (IF IsSome(f.closing_posting) THEN {Unwrap(f.closing_posting).id} ELSE {})

\* the ids the stores and the calls in flight hold
UsedIds ==
    DOMAIN stmts \cup DOMAIN postings
        \cup {traces[i].id : i \in 1..Len(traces)}
        \cup {traces[i].tgt_pst_id : i \in 1..Len(traces)}
        \cup UNION {FrameIds(frame[p]) : p \in Procs}

FreeIds == (1..MaxId) \ UsedIds

RECURSIVE Least(_, _)
Least(S, n) ==
    IF n = 0 THEN <<>>
    ELSE LET x == CHOOSE y \in S : \A z \in S : y <= z
         IN <<x>> \o Least(S \ {x}, n - 1)

\* n draws of Uuid::new_v4(): ids that nothing holds yet
CanDraw(n) == Cardinality(FreeIds) >= n

new_v4(n) == Least(FreeIds, n)

\* the record times the stores and the calls in flight hold
UsedTimes ==
    {r.record_time : r \in Rows(postings)}
        \cup {Unwrap(frame[p].closing_posting).record_time :
                p \in {q \in Procs : frame[q].pc \notin {"idle", "done"}
                                     /\ IsSome(frame[q].closing_posting)}}

\* Utc::now(): later than every time read before
now == 1 + (CHOOSE t \in UsedTimes \cup {0} : \A u \in UsedTimes \cup {0} : u <= t)

-----------------------------------------------------------------------------
(* stmt(): build the statement of an account at ref_time *)

\* the statement's id is its effective time, not a fresh uuid
new_stmt_IdByTime(id, account_id, ref_time) ==
    [id |-> ref_time, account_id |-> account_id, youngest_pst_id |-> None,
     total_debit |-> 0, total_credit |-> 0, posting_id |-> None,
     pst_time |-> ref_time, stmt_status |-> "Simulated",
     latest_pst_id |-> None, stmt_seq_nbr |-> 0]

\* lines 89-100: the fresh Simulated statement
new_stmt(id, account_id, ref_time) ==
    [id |-> id, account_id |-> account_id, youngest_pst_id |-> None,
     total_debit |-> 0, total_credit |-> 0, posting_id |-> None,
     pst_time |-> ref_time, stmt_status |-> "Simulated",
     latest_pst_id |-> None, stmt_seq_nbr |-> 0]

\* the window of a baseline is not bounded from below
StartFrom_FromTheStart(last_closed_stmt, id, account_id, ref_time) ==
    [stmt |-> IF IsSome(last_closed_stmt) THEN Unwrap(last_closed_stmt)
              ELSE new_stmt(id, account_id, ref_time),
     posting_lines |-> find_by_account_and_pst_time_less_than_equal(account_id, ref_time)]

\* lines 71-111: the statement to start from and the lines to aggregate
StartFrom(last_closed_stmt, id, account_id, ref_time) ==
    IF IsSome(last_closed_stmt)
    THEN [stmt |-> Unwrap(last_closed_stmt),
          posting_lines |-> find_by_account_and_pst_time_between(
                                account_id, Unwrap(last_closed_stmt).pst_time, ref_time)]
    ELSE [stmt |-> new_stmt(id, account_id, ref_time),
          posting_lines |-> find_by_account_and_pst_time_less_than_equal(account_id, ref_time)]

\* the statement the caller's previous call returned, when that call was a
\* successful create_stmt and this call is create_stmt with the same arguments
Repeated(f, op, ledger_account, ref_time) ==
    IF /\ op = "create_stmt" /\ f.pc = "done" /\ f.op = "create_stmt" /\ f.outcome = "Ok"
       /\ f.account = Some(ledger_account) /\ f.ref_time = ref_time
    THEN f.bo ELSE None

\* an account without a record is taken as the caller gave it
AccountModel_AsGiven(ledger_account) ==
    IF IsSome(load_ledger_account(ledger_account.id))
    THEN load_ledger_account(ledger_account.id)
    ELSE Some([id |-> ledger_account.id, ledger_id |-> ledger_account.ledger])

\* lines 43-54: the account's record, None ending the call with LedgerAccountNotFound
AccountModel(ledger_account) == load_ledger_account(ledger_account.id)

\* lines 34-111: the account, the last closed statement and the lines are read
stmt(p, op, ledger_account, ref_time, db_fails) ==
    LET account_model == AccountModel(ledger_account)
        f0 == [Idle EXCEPT !.op = op, !.pre = Some(Snapshot)]
        f1 == [f0 EXCEPT !.account = Some(ledger_account)]
        f == [f1 EXCEPT !.ref_time = ref_time, !.again = Repeated(frame[p], op, ledger_account, ref_time)]
    IN /\ Free(p)
       /\ IF db_fails
          THEN Done(p, f0, "Db", None)
          ELSE IF ~IsSome(account_model)
          THEN Done(p, f1, "LedgerAccountNotFound", None)
          ELSE \E last_closed_stmt \in
                    find_first_by_account_and_status_and_pst_time_less_than_ordered(
                        Unwrap(account_model).id, "Closed", ref_time) :
                 LET need == (IF IsSome(last_closed_stmt) THEN 0 ELSE 1)
                               + Len(StartFrom(last_closed_stmt, 0, Unwrap(account_model).id,
                                               ref_time).posting_lines)
                     ids == new_v4(need)
                     s == StartFrom(last_closed_stmt, IF IsSome(last_closed_stmt) THEN 0 ELSE Head(ids),
                                    Unwrap(account_model).id, ref_time)
                 IN /\ CanDraw(need)
                    /\ frame' = [frame EXCEPT ![p] =
                           [f EXCEPT !.pc = "refresh", !.stmt = Some(s.stmt),
                                     !.todo = s.posting_lines,
                                     !.uuids = SubSeq(ids, need - Len(s.posting_lines) + 1, need),
                                     !.baseline = IF IsSome(last_closed_stmt)
                                                  THEN Some(Unwrap(last_closed_stmt).id) ELSE None,
                                     !.gathered = s.posting_lines]]
       /\ UNCHANGED <<lines, stmts, postings, traces>>

\* the trace carries the line's amounts on the opposite sides
create_posting_trace_Swapped(id, s, line) ==
    [id |-> id, tgt_pst_id |-> s.id, src_pst_time |-> line.pst_time,
     src_pst_id |-> line.id, src_opr_id |-> line.opr_id, account_id |-> s.account_id,
     debit_amount |-> line.credit_amount, credit_amount |-> line.debit_amount,
     src_pst_hash |-> line.hash]

\* lines 201-217
create_posting_trace(id, s, line) ==
    [id |-> id, tgt_pst_id |-> s.id, src_pst_time |-> line.pst_time,
     src_pst_id |-> line.id, src_opr_id |-> line.opr_id, account_id |-> s.account_id,
     debit_amount |-> line.debit_amount, credit_amount |-> line.credit_amount,
     src_pst_hash |-> line.hash]

\* the credit amount is not accumulated
Refreshed_DebitOnly(s, trace, line) ==
    [s EXCEPT !.youngest_pst_id = IF ~IsSome(s.youngest_pst_id) THEN Some(trace.id) ELSE @,
              !.latest_pst_id = Some(trace.id),
              !.total_debit = @ + line.debit_amount]

\* lines 186-192: the statement after one more line
Refreshed(s, trace, line) ==
    [s EXCEPT !.youngest_pst_id = IF ~IsSome(s.youngest_pst_id) THEN Some(trace.id) ELSE @,
              !.latest_pst_id = Some(trace.id),
              !.total_debit = @ + line.debit_amount,
              !.total_credit = @ + line.credit_amount]

\* lines 114-121 and 178-199: the next line is aggregated and its trace saved
refresh_statement(p) ==
    LET f == frame[p]
        line == Head(f.todo)
        trace == create_posting_trace(Head(f.uuids), Unwrap(f.stmt), line)
    IN /\ f.pc = "refresh"
       /\ f.todo # <<>>
       /\ \E save_fails \in BOOLEAN :
            IF save_fails
            THEN Done(p, f, "Db", None) /\ UNCHANGED traces
            ELSE /\ traces' = Append(traces, trace)
                 /\ frame' = [frame EXCEPT ![p] =
                        [f EXCEPT !.stmt = Some(Refreshed(Unwrap(f.stmt), trace, line)),
                                  !.todo = Tail(f.todo), !.uuids = Tail(f.uuids)]]
       /\ UNCHANGED <<lines, stmts, postings>>

\* lines 123-175: the domain statement
AccountStmtBO(s, ledger_account) ==
    [financial_stmt |->
        [id |-> s.id,
         posting |-> IF IsSome(s.posting_id) THEN posting_find_by_id(Unwrap(s.posting_id)) ELSE None,
         pst_time |-> s.pst_time,
         stmt_status |-> StatusToBO(s.stmt_status),
         latest_pst |-> IF IsSome(s.latest_pst_id) THEN trace_find_by_id(Unwrap(s.latest_pst_id)) ELSE None,
         stmt_seq_nbr |-> s.stmt_seq_nbr],
     account |-> ledger_account,
     youngest_pst |-> IF IsSome(s.youngest_pst_id) THEN trace_find_by_id(Unwrap(s.youngest_pst_id)) ELSE None,
     total_debit |-> s.total_debit,
     total_credit |-> s.total_credit]

\* lines 123-176, 227, 235: every line is aggregated; the traces and the posting
\* the statement points to are looked up and the domain statement is returned
stmt_return(p) ==
    LET f == frame[p]
        stmt_bo == AccountStmtBO(Unwrap(f.stmt), Unwrap(f.account))
    IN /\ f.pc = "refresh"
       /\ f.todo = <<>>
       /\ \E db_fails \in BOOLEAN :
            IF db_fails /\ (IsSome(Unwrap(f.stmt).youngest_pst_id) \/ IsSome(Unwrap(f.stmt).posting_id))
            THEN Done(p, f, "Db", None)
            ELSE IF f.op = "read_stmt"
            THEN Done(p, f, "Ok", Some(stmt_bo))
            ELSE frame' = [frame EXCEPT ![p] = [f EXCEPT !.pc = "save", !.bo = Some(stmt_bo)]]
       /\ UNCHANGED <<lines, stmts, postings, traces>>

\* lines 222-228
read_stmt(p) ==
    \E a \in Asked, ref_time \in Times, db_fails \in BOOLEAN :
        stmt(p, "read_stmt", LedgerAccountBO(a), ref_time, db_fails)

\* lines 230-235
create_stmt(p) ==
    \E a \in Asked, ref_time \in Times, db_fails \in BOOLEAN :
        stmt(p, "create_stmt", LedgerAccountBO(a), ref_time, db_fails)

\* lines 236-241: the statement row is saved
create_stmt_save(p) ==
    LET f == frame[p]
        stmt_model == AccountStmtMapper_from_bo(Unwrap(f.bo))
    IN /\ f.pc = "save"
       /\ \E save_fails \in BOOLEAN :
            IF save_fails
            THEN Done(p, f, "Db", None) /\ UNCHANGED stmts
            ELSE Done(p, f, "Ok", f.bo) /\ stmts' = Save(stmts, stmt_model)
       /\ UNCHANGED <<lines, postings, traces>>

-----------------------------------------------------------------------------
(* close_stmt *)

\* the statement a caller passes, as the service returned it: the fields
\* close_stmt reads are the id, the effective time and the account's ledger
CloseArg(id, pst_time, ledger_id) ==
    [financial_stmt |-> [id |-> id, pst_time |-> pst_time,
                         stmt_status |-> "SIMULATED", posting |-> None],
     account |-> [ledger |-> [id |-> ledger_id]]]

\* the statements create_stmt saved, and (id 0) one that was only read
CloseArgs ==
    {CloseArg(r.id, r.pst_time, LedgerAccountBO(r.account_id).ledger) : r \in Rows(stmts)}
        \cup {CloseArg(0, 1, "l1")}

\* the sealing posting is stamped with the time of the close
ClosingPosting_StampedNow(id, record_time, arg, ledger_bo) ==
    [id |-> id, record_time |-> record_time, pst_time |-> record_time,
     pst_type |-> "BalStmt", pst_status |-> "Posted", ledger |-> ledger_bo, lines |-> <<>>,
     hash_record |-> [antecedent_id |-> None, antecedent_hash |-> None, hash |-> None]]

\* the sealing posting's id is the statement's id, not a fresh uuid
ClosingPosting_IdOfStatement(id, record_time, arg, ledger_bo) ==
    [id |-> arg.financial_stmt.id, record_time |-> record_time,
     pst_time |-> arg.financial_stmt.pst_time,
     pst_type |-> "BalStmt", pst_status |-> "Posted", ledger |-> ledger_bo, lines |-> <<>>,
     hash_record |-> [antecedent_id |-> None, antecedent_hash |-> None, hash |-> None]]

\* lines 274-293: the sealing posting
ClosingPosting(id, record_time, arg, ledger_bo) ==
    [id |-> id, record_time |-> record_time, pst_time |-> arg.financial_stmt.pst_time,
     pst_type |-> "BalStmt", pst_status |-> "Posted", ledger |-> ledger_bo, lines |-> <<>>,
     hash_record |-> [antecedent_id |-> None, antecedent_hash |-> None, hash |-> None]]

\* the status is not checked
AlreadyClosed_Never(stmt_model) == FALSE

\* lines 253-255
AlreadyClosed(stmt_model) == stmt_model.stmt_status = "Closed"

\* lines 244-293: the row is reloaded and checked, the ledger is read and the
\* sealing posting is constructed
close_stmt(p) ==
    \E arg \in CloseArgs, db_fails \in BOOLEAN :
        LET stmt_model == stmt_find_by_id(arg.financial_stmt.id)
            ledger_model == ledger_find_by_id(arg.account.ledger.id)
            f0 == [Idle EXCEPT !.op = "close_stmt", !.pre = Some(Snapshot)]
            f == [f0 EXCEPT !.arg = Some(arg)]
        IN /\ Free(p)
           /\ IF db_fails
              THEN Done(p, f0, "Db", None)
              ELSE IF ~IsSome(stmt_model)
              THEN Done(p, f, "StatementNotFound", None)
              ELSE IF AlreadyClosed(Unwrap(stmt_model))
              THEN Done(p, f, "StatementAlreadyClosed", None)
              ELSE IF ~IsSome(ledger_model)
              THEN Done(p, f, "panic", None)
              ELSE /\ CanDraw(1)
                   /\ frame' = [frame EXCEPT ![p] =
                          [f EXCEPT !.pc = "link", !.stmt = stmt_model,
                                    !.closing_posting = Some(ClosingPosting(
                                        Head(new_v4(1)), now, arg, [id |-> Unwrap(ledger_model).id]))]]
           /\ UNCHANGED <<lines, stmts, postings, traces>>

\* the antecedent's id is copied, its hash is not
Linked_IdOnly(posting, antecedent) ==
    IF IsSome(antecedent)
    THEN [posting EXCEPT !.hash_record.antecedent_id = Some(Unwrap(antecedent).id)]
    ELSE posting

\* lines 303-306
Linked(posting, antecedent) ==
    IF IsSome(antecedent)
    THEN [posting EXCEPT !.hash_record.antecedent_id = Some(Unwrap(antecedent).id),
                         !.hash_record.antecedent_hash = Unwrap(antecedent).hash]
    ELSE posting

\* the hash is not attached
Hashed_Not(posting) == posting

\* lines 307-308
Hashed(posting) == [posting EXCEPT !.hash_record.hash = Some(hash_serialize(posting))]

\* lines 295-308: the ledger's last posting is looked up, the sealing posting is
\* linked to it and hashed
close_stmt_link(p) ==
    LET f == frame[p]
        closing_posting == Unwrap(f.closing_posting)
    IN /\ f.pc = "link"
       /\ \E antecedent \in find_first_by_ledger_order_by_record_time_desc(closing_posting.ledger.id),
             db_fails \in BOOLEAN, hash_fails \in BOOLEAN :
            IF db_fails
            THEN Done(p, f, "Db", None)
            ELSE IF hash_fails
            THEN Done(p, [f EXCEPT !.closing_posting = Some(Linked(closing_posting, antecedent))],
                      "NotEnoughInfo", None)
            ELSE frame' = [frame EXCEPT ![p] =
                     [f EXCEPT !.pc = "save_posting",
                               !.closing_posting = Some(Hashed(Linked(closing_posting, antecedent)))]]
       /\ UNCHANGED <<lines, stmts, postings, traces>>

\* lines 310-315: the sealing posting is saved
close_stmt_save_posting(p) ==
    LET f == frame[p]
        posting_model == PostingMapper_to_model(Unwrap(f.closing_posting))
    IN /\ f.pc = "save_posting"
       /\ \E save_fails \in BOOLEAN :
            IF save_fails
            THEN Done(p, f, "Db", None) /\ UNCHANGED postings
            ELSE /\ postings' = Save(postings, posting_model)
                 /\ frame' = [frame EXCEPT ![p] =
                        [f EXCEPT !.pc = "save_stmt", !.sealed = Some(posting_model.id)]]
       /\ UNCHANGED <<lines, stmts, traces>>

\* lines 317-318
Closed(stmt_model, closing_posting) ==
    [stmt_model EXCEPT !.stmt_status = "Closed", !.posting_id = Some(closing_posting.id)]

\* lines 325-328
ClosedBO(arg, closing_posting) ==
    [arg EXCEPT !.financial_stmt.stmt_status = "CLOSED",
                !.financial_stmt.posting = Some(closing_posting)]

\* the sealing posting is removed again when the save of the row fails
close_stmt_save_stmt_Compensating(p) ==
    LET f == frame[p]
        closing_posting == Unwrap(f.closing_posting)
        stmt_model == Closed(Unwrap(f.stmt), closing_posting)
    IN /\ f.pc = "save_stmt"
       /\ \E save_fails \in BOOLEAN :
            IF save_fails
            THEN /\ Done(p, f, "Db", None)
                 /\ postings' = [i \in DOMAIN postings \ {closing_posting.id} |-> postings[i]]
                 /\ UNCHANGED stmts
            ELSE /\ stmts' = Save(stmts, stmt_model)
                 /\ Done(p, [f EXCEPT !.stmt = Some(stmt_model)], "Ok",
                         Some(ClosedBO(Unwrap(f.arg), closing_posting)))
                 /\ UNCHANGED postings
       /\ UNCHANGED <<lines, traces>>

\* lines 317-331: the row is marked Closed, linked to the posting and saved
close_stmt_save_stmt(p) ==
    LET f == frame[p]
        closing_posting == Unwrap(f.closing_posting)
        stmt_model == Closed(Unwrap(f.stmt), closing_posting)
    IN /\ f.pc = "save_stmt"
       /\ \E save_fails \in BOOLEAN :
            IF save_fails
            THEN Done(p, f, "Db", None) /\ UNCHANGED stmts
            ELSE /\ stmts' = Save(stmts, stmt_model)
                 /\ Done(p, [f EXCEPT !.stmt = Some(stmt_model)], "Ok",
                         Some(ClosedBO(Unwrap(f.arg), closing_posting)))
       /\ UNCHANGED <<lines, postings, traces>>

-----------------------------------------------------------------------------
(* Calls of LedgerAccountMapper: the frame keeps the value given (arg) and the
   value returned (bo); a call given the result of the caller's previous call
   keeps what that call was given (again) *)

to_bo(p) ==
    /\ Free(p)
    /\ \/ \E model \in LedgerAccountModels :
            frame' = [frame EXCEPT ![p] =
                [Idle EXCEPT !.pc = "done", !.op = "to_bo", !.outcome = "Ok",
                             !.arg = Some(model),
                             !.bo = Some(LedgerAccountMapper_to_bo(
                                        model, [id |-> model.ledger_id],
                                        [id |-> model.coa_id], None))]]
       \/ /\ frame[p].op = "to_model"
          /\ frame' = [frame EXCEPT ![p] =
                [Idle EXCEPT !.pc = "done", !.op = "to_bo", !.outcome = "Ok",
                             !.arg = frame[p].bo, !.again = frame[p].arg,
                             !.bo = Some(LedgerAccountMapper_to_bo(
                                        Unwrap(frame[p].bo),
                                        [id |-> Unwrap(frame[p].bo).ledger_id],
                                        [id |-> Unwrap(frame[p].bo).coa_id], None))]]
    /\ UNCHANGED <<lines, stmts, postings, traces>>

to_model(p) ==
    /\ Free(p)
    /\ \/ \E bo \in LedgerAccountBOs :
            frame' = [frame EXCEPT ![p] =
                [Idle EXCEPT !.pc = "done", !.op = "to_model", !.outcome = "Ok",
                             !.arg = Some(bo),
                             !.bo = Some(LedgerAccountMapper_to_model(bo))]]
       \/ /\ frame[p].op = "to_bo"
          /\ frame' = [frame EXCEPT ![p] =
                [Idle EXCEPT !.pc = "done", !.op = "to_model", !.outcome = "Ok",
                             !.arg = frame[p].bo, !.again = frame[p].arg,
                             !.bo = Some(LedgerAccountMapper_to_model(Unwrap(frame[p].bo)))]]
    /\ UNCHANGED <<lines, stmts, postings, traces>>

-----------------------------------------------------------------------------
(* Specifications *)

Step(p) ==
    \/ read_stmt(p)
    \/ create_stmt(p)
    \/ refresh_statement(p)
    \/ stmt_return(p)
    \/ create_stmt_save(p)
    \/ close_stmt(p)
    \/ close_stmt_link(p)
    \/ close_stmt_save_posting(p)
    \/ close_stmt_save_stmt(p)

\* calls made one after the other
Next == \E p \in SeqProcs : Step(p)

Spec == Init /\ [][Next]_vars

\* the storage accesses and the hashing of the step of p succeed
Succeeds(p) == frame'[p].outcome \notin {"Db", "NotEnoughInfo"}

\* a caller opens with any call and follows a successful create_stmt with a close_stmt
Opens(p) ==
    frame[p].pc = "done"
        => /\ frame[p].op = "create_stmt" /\ frame[p].outcome = "Ok"
           /\ frame'[p].op = "close_stmt"

\* two callers whose calls interleave at the storage accesses
NextConc ==
    \E p \in Procs :
        \/ read_stmt(p) /\ Opens(p) /\ Succeeds(p)
        \/ create_stmt(p) /\ Opens(p) /\ Succeeds(p)
        \/ refresh_statement(p) /\ Opens(p) /\ Succeeds(p)
        \/ stmt_return(p) /\ Opens(p) /\ Succeeds(p)
        \/ create_stmt_save(p) /\ Opens(p) /\ Succeeds(p)
        \/ close_stmt(p) /\ Opens(p) /\ Succeeds(p)
        \/ close_stmt_link(p) /\ Opens(p) /\ Succeeds(p)
        \/ close_stmt_save_posting(p) /\ Opens(p) /\ Succeeds(p)
        \/ close_stmt_save_stmt(p) /\ Opens(p) /\ Succeeds(p)

SpecConc == Init /\ [][NextConc]_vars

\* the mapper's calls, by two callers, over empty stores
InitMapper ==
    /\ lines = {}
    /\ stmts = <<>>
    /\ postings = <<>>
    /\ traces = <<>>
    /\ frame = [p \in Procs |-> Idle]

NextMapper == \E p \in Procs : to_bo(p) \/ to_model(p)

SpecMapper == InitMapper /\ [][NextMapper]_vars

-----------------------------------------------------------------------------
(* Properties *)

\* the call of p has returned
Returned(p, op) == frame[p].pc = "done" /\ frame[p].op = op

\* the stores as they were when the call of p began
Pre(p) == Unwrap(frame[p].pre)

ClosedBefore(store, account_id, ref_time) ==
    {r \in Rows(store) : r.account_id = account_id /\ r.stmt_status = "Closed"
                          /\ r.pst_time < ref_time}

LinesOf(account_id, from, to) ==
    {l \in lines : l.account_id = account_id /\ from <= l.pst_time /\ l.pst_time <= to}

\* C1: read_stmt performs no writes: when a read_stmt call has returned, with a
\* result or with an error, the statement store, the posting store and the
\* posting-trace store are as they were when the call began.
C1_ReadStmtWritesNothing ==
    \A p \in Procs : Returned(p, "read_stmt") => Snapshot = Pre(p)

\* C2: a statement row that is Closed keeps its total_debit, its total_credit
\* and its posting_id in every step of every call.
C2_ClosedRowImmutable ==
    [][\A id \in DOMAIN stmts :
          stmts[id].stmt_status = "Closed"
              => /\ id \in DOMAIN stmts'
                 /\ stmts'[id].total_debit = stmts[id].total_debit
                 /\ stmts'[id].total_credit = stmts[id].total_credit
                 /\ stmts'[id].posting_id = stmts[id].posting_id]_vars

\* C3: two consecutive successful create_stmt calls with the same account and
\* ref_time leave two statement rows with distinct ids and the same total_debit
\* and total_credit, also when a Closed statement before ref_time exists.
C3_CreateTwiceTwoRows ==
    \A p \in Procs :
        (Returned(p, "create_stmt") /\ frame[p].outcome = "Ok" /\ IsSome(frame[p].again))
            => LET first == Unwrap(frame[p].again).financial_stmt.id
                   second == Unwrap(frame[p].bo).financial_stmt.id
               IN /\ first # second
                  /\ {first, second} \subseteq DOMAIN stmts
                  /\ stmts[first].total_debit = stmts[second].total_debit
                  /\ stmts[first].total_credit = stmts[second].total_credit

\* C4: when the account has no Closed statement with effective time strictly
\* before ref_time, read_stmt returns as total_debit and total_credit the sums of
\* the debit and credit amounts of the account's lines with effective time <=
\* ref_time, and of no other line.
C4_ReadStmtWithoutBaseline ==
    \A p \in Procs :
        LET f == frame[p]
        IN (/\ Returned(p, "read_stmt") /\ f.outcome = "Ok"
            /\ ClosedBefore(Pre(p).stmts, Unwrap(f.account).id, f.ref_time) = {})
              => /\ Unwrap(f.bo).total_debit = SumDebit(LinesOf(Unwrap(f.account).id, 0, f.ref_time))
                 /\ Unwrap(f.bo).total_credit = SumCredit(LinesOf(Unwrap(f.account).id, 0, f.ref_time))

\* a read without a baseline that counted a line, with a later line of the
\* account and a line of another account in the store
C4_Witness ==
    \E p \in Procs :
        LET f == frame[p]
        IN /\ Returned(p, "read_stmt") /\ f.outcome = "Ok"
           /\ ClosedBefore(Pre(p).stmts, Unwrap(f.account).id, f.ref_time) = {}
           /\ Unwrap(f.bo).total_debit > 0
           /\ \E l \in lines : l.account_id = Unwrap(f.account).id /\ l.pst_time > f.ref_time
           /\ \E l \in lines : l.account_id # Unwrap(f.account).id /\ l.pst_time <= f.ref_time

\* C5: when the latest Closed statement S of the account with effective time T
\* strictly before ref_time exists, read_stmt returns S's totals plus the debit
\* and credit amounts of the account's lines with effective time from T to
\* ref_time, both ends included.
C5_ReadStmtFromBaseline ==
    \A p \in Procs :
        LET f == frame[p]
            C == ClosedBefore(Pre(p).stmts, Unwrap(f.account).id, f.ref_time)
        IN (Returned(p, "read_stmt") /\ f.outcome = "Ok" /\ C # {})
              => \E S \in C :
                    /\ \A y \in C : y.pst_time <= S.pst_time
                    /\ Unwrap(f.bo).financial_stmt.id = S.id
                    /\ Unwrap(f.bo).total_debit = S.total_debit
                          + SumDebit(LinesOf(S.account_id, S.pst_time, f.ref_time))
                    /\ Unwrap(f.bo).total_credit = S.total_credit
                          + SumCredit(LinesOf(S.account_id, S.pst_time, f.ref_time))

\* a read from a baseline with totals, with a line in the window and a line of
\* the account before the window
C5_Witness ==
    \E p \in Procs :
        LET f == frame[p]
        IN /\ Returned(p, "read_stmt") /\ f.outcome = "Ok" /\ IsSome(f.baseline)
           /\ Pre(p).stmts[Unwrap(f.baseline)].total_debit > 0
           /\ f.gathered # <<>>
           /\ \E l \in lines : /\ l.account_id = Unwrap(f.account).id
                               /\ l.pst_time < Pre(p).stmts[Unwrap(f.baseline)].pst_time

\* the row close_stmt was called for, as it was when the call began
PreRow(p) == Pre(p).stmts[Unwrap(frame[p].arg).financial_stmt.id]

OnPersisted(p, status) ==
    /\ Returned(p, "close_stmt")
    /\ IsSome(frame[p].arg)
    /\ Unwrap(frame[p].arg).financial_stmt.id \in DOMAIN Pre(p).stmts
    /\ PreRow(p).stmt_status = status

\* C6: close_stmt on a statement whose row is Closed returns
\* StatementAlreadyClosed and leaves the statement store, the posting store and
\* the trace store as they were.
C6_CloseClosedFails ==
    \A p \in Procs :
        OnPersisted(p, "Closed")
            => frame[p].outcome = "StatementAlreadyClosed" /\ Snapshot = Pre(p)

C6_Witness ==
    \E p \in Procs : OnPersisted(p, "Closed") /\ frame[p].outcome = "StatementAlreadyClosed"

\* C7: in every step every statement row stays in the store, a Closed row stays
\* Closed, and a row's status changes only from Simulated to Closed, in the
\* step of close_stmt that saves the row.
C7_ClosedIsTerminal ==
    [][\A id \in DOMAIN stmts :
          /\ id \in DOMAIN stmts'
          /\ stmts[id].stmt_status = "Closed" => stmts'[id].stmt_status = "Closed"
          /\ stmts'[id].stmt_status # stmts[id].stmt_status
                => /\ stmts[id].stmt_status = "Simulated"
                   /\ stmts'[id].stmt_status = "Closed"
                   /\ \E p \in Procs : /\ frame[p].op = "close_stmt"
                                       /\ frame[p].pc = "save_stmt"
                                       /\ frame'[p].pc = "done"]_vars

\* a create_stmt that started from a Closed row has saved its row
C7_Witness ==
    \E p \in Procs :
        /\ Returned(p, "create_stmt") /\ frame[p].outcome = "Ok" /\ IsSome(frame[p].baseline)
        /\ stmts[Unwrap(frame[p].baseline)].stmt_status = "Closed"

InLedger(store, ledger_id) == {r \in Rows(store) : r.ledger_id = ledger_id}

\* C9: the posting a successful close_stmt saves has no antecedent when the
\* ledger held no posting, and otherwise the id and the stored hash of the
\* ledger's posting recorded last; and in every ledger the posting recorded
\* first has no antecedent and every other posting has the id and the stored
\* hash of the posting recorded just before it.
C9_HashChain ==
    /\ \A p \in Procs :
          (Returned(p, "close_stmt") /\ frame[p].outcome = "Ok")
              => LET new == postings[Unwrap(frame[p].closing_posting).id]
                     held == InLedger(Pre(p).postings, new.ledger_id)
                 IN IF held = {}
                    THEN new.antecedent_id = None /\ new.antecedent_hash = None
                    ELSE \E a \in held :
                            /\ \A y \in held : y.record_time <= a.record_time
                            /\ new.antecedent_id = Some(a.id)
                            /\ new.antecedent_hash = a.hash
    /\ \A l \in Ledgers : \A r \in InLedger(postings, l) :
          LET before == {x \in InLedger(postings, l) : x.record_time < r.record_time}
          IN IF before = {}
             THEN r.antecedent_id = None /\ r.antecedent_hash = None
             ELSE \E a \in before :
                     /\ \A y \in before : y.record_time <= a.record_time
                     /\ r.antecedent_id = Some(a.id)
                     /\ r.antecedent_hash = a.hash /\ IsSome(a.hash)

\* two sealing postings in a ledger that held no posting before the first
C9_Witness ==
    \E l \in Ledgers :
        /\ \A r \in InLedger(postings, l) : r.pst_type = "BalStmt"
        /\ Cardinality(InLedger(postings, l)) = 2

\* C10: every posting close_stmt has saved carries its hash, and a close_stmt
\* that returns NotEnoughInfo, its hash computation having failed, leaves the
\* posting store and the statement store as they were.
C10_NoUnhashedPosting ==
    /\ \A r \in Rows(postings) : r.pst_type = "BalStmt" => IsSome(r.hash)
    /\ \A p \in Procs :
          (Returned(p, "close_stmt") /\ frame[p].outcome = "NotEnoughInfo")
              => /\ Snapshot = Pre(p)
                 /\ ~IsSome(Unwrap(frame[p].closing_posting).hash_record.hash)

\* a close_stmt whose hash computation failed, in a ledger that holds a sealing posting
C10_Witness ==
    \E p \in Procs :
        /\ Returned(p, "close_stmt") /\ frame[p].outcome = "NotEnoughInfo"
        /\ \E r \in Rows(postings) : r.pst_type = "BalStmt"

\* C11: any two distinct statement rows of one account carry distinct sequence
\* numbers (as they must when a row persisted later carries a strictly greater
\* number than one persisted earlier).
C11_SeqNbrMonotonic ==
    \A r1 \in Rows(stmts), r2 \in Rows(stmts) :
        (r1.id # r2.id /\ r1.account_id = r2.account_id)
            => r1.stmt_seq_nbr # r2.stmt_seq_nbr

\* C12: read_stmt and create_stmt for an account the directory has no record of
\* return LedgerAccountNotFound and leave the statement store, the posting
\* store and the trace store as they were.
C12_MissingAccount ==
    \A p \in Procs :
        LET f == frame[p]
        IN (/\ f.op \in {"read_stmt", "create_stmt"} /\ IsSome(f.account)
            /\ ~IsSome(load_ledger_account(Unwrap(f.account).id)))
              => /\ f.pc = "done"
                 /\ f.outcome = "LedgerAccountNotFound"
                 /\ f.bo = None
                 /\ Snapshot = Pre(p)

\* a create_stmt for the account without record has returned, with statements
\* and traces in the stores
C12_Witness ==
    \E p \in Procs :
        /\ Returned(p, "create_stmt") /\ IsSome(frame[p].account)
        /\ ~IsSome(load_ledger_account(Unwrap(frame[p].account).id))
        /\ stmts # <<>> /\ traces # <<>>

\* C13: the translation of BalanceSide and AccountCategory is a total bijection:
\* every variant is translated to a variant of the other side, translating a
\* value there and back returns its variants, in both directions, and values
\* with distinct variants are translated to values with distinct variants.
C13_MapperBijection ==
    \A p \in Procs :
        LET f == frame[p]
        IN f.op \in {"to_bo", "to_model"}
            => /\ Unwrap(f.bo).balance_side
                    \in (IF f.op = "to_bo" THEN ApiBalanceSide ELSE DbBalanceSide)
               /\ Unwrap(f.bo).category
                    \in (IF f.op = "to_bo" THEN ApiAccountCategory ELSE DbAccountCategory)
               /\ IsSome(f.again)
                    => /\ Unwrap(f.bo).balance_side = Unwrap(f.again).balance_side
                       /\ Unwrap(f.bo).category = Unwrap(f.again).category
               /\ \A q \in Procs :
                    frame[q].op = f.op
                        => /\ Unwrap(frame[q].arg).balance_side # Unwrap(f.arg).balance_side
                              => Unwrap(frame[q].bo).balance_side # Unwrap(f.bo).balance_side
                           /\ Unwrap(frame[q].arg).category # Unwrap(f.arg).category
                              => Unwrap(frame[q].bo).category # Unwrap(f.bo).category

\* a domain account was stored and read back while the other caller stored a
\* domain account of another category
C13_Witness ==
    /\ frame["p1"].op = "to_bo" /\ IsSome(frame["p1"].again)
    /\ Unwrap(frame["p1"].again).category = <<"api", "NOEX">>
    /\ frame["p2"].op = "to_model"
    /\ Unwrap(frame["p2"].arg).category = <<"api", "NORE">>

\* the number of lines the pass of p has processed, and of traces held when it began
Processed(p) == Len(frame[p].gathered) - Len(frame[p].todo)

HeldBefore(p) == Len(Pre(p).traces)

\* C14: at every point of a call the trace store is the store as it was when
\* the call began followed by one trace per line the pass has processed so far,
\* in the order of the lines, each with the statement's id as target, the
\* statement's account, and the line's time, id, operation id, amounts and hash;
\* a pass that returns with lines left returns a storage error, and a pass
\* that returns a statement has left none.
C14_OneTracePerLine ==
    \A p \in SeqProcs :
        LET f == frame[p]
        IN IsSome(f.pre)
            => /\ Len(traces) = HeldBefore(p) + Processed(p)
               /\ SubSeq(traces, 1, HeldBefore(p)) = Pre(p).traces
               /\ \A i \in 1..Processed(p) :
                     LET t == traces[HeldBefore(p) + i]
                         line == f.gathered[i]
                     IN /\ t.tgt_pst_id = Unwrap(f.stmt).id
                        /\ t.account_id = Unwrap(f.stmt).account_id
                        /\ t.src_pst_time = line.pst_time
                        /\ t.src_pst_id = line.id
                        /\ t.src_opr_id = line.opr_id
                        /\ t.debit_amount = line.debit_amount
                        /\ t.credit_amount = line.credit_amount
                        /\ t.src_pst_hash = line.hash
                        /\ \A j \in 1..Len(traces) : traces[j].id = t.id => j = HeldBefore(p) + i
               /\ (f.pc = "done" /\ f.todo # <<>>) => f.outcome = "Db"
               /\ (f.pc = "done" /\ f.outcome = "Ok") => f.todo = <<>>

\* the save of the second trace of a pass failed
C14_Witness ==
    \E p \in SeqProcs :
        /\ frame[p].pc = "done" /\ frame[p].outcome = "Db"
        /\ Len(frame[p].gathered) >= 2 /\ Processed(p) = 1

IdOf(o) == IF IsSome(o) THEN Some(Unwrap(o).id) ELSE None

\* C15: a statement returned by a pass that processed lines points to the trace
\* of the first line of this pass as its first trace and to the trace of the
\* last line of this pass as its latest; after a pass without lines both
\* pointers are those the pass started with, also when it started from a
\* Closed statement.
C15_TracePointers ==
    \A p \in SeqProcs :
        LET f == frame[p]
            bo == Unwrap(f.bo)
        IN (f.pc = "done" /\ f.op \in {"read_stmt", "create_stmt"} /\ f.outcome = "Ok")
            => IF f.gathered # <<>>
               THEN /\ bo.youngest_pst = Some(traces[HeldBefore(p) + 1])
                    /\ bo.financial_stmt.latest_pst = Some(traces[HeldBefore(p) + Len(f.gathered)])
               ELSE /\ IdOf(bo.youngest_pst)
                        = (IF IsSome(f.baseline)
                           THEN Pre(p).stmts[Unwrap(f.baseline)].youngest_pst_id ELSE None)
                    /\ IdOf(bo.financial_stmt.latest_pst)
                        = (IF IsSome(f.baseline)
                           THEN Pre(p).stmts[Unwrap(f.baseline)].latest_pst_id ELSE None)

\* the close_stmt call of p has saved its sealing posting and has not returned
\* the closed statement
SealedOnly(p) ==
    /\ frame[p].op = "close_stmt"
    /\ IsSome(frame[p].sealed)
    /\ ~(frame[p].pc = "done" /\ frame[p].outcome = "Ok")

\* C16: once close_stmt has saved the sealing posting, and until it has saved
\* the statement, the posting is in the store and the row is Simulated without
\* posting_id, also after the call has returned because the statement save
\* failed, which it does with a storage error; and in every state the posting
\* of a Closed row with a posting_id is in the posting store.
C16_CloseDoesNotCompensate ==
    /\ \A p \in SeqProcs :
          SealedOnly(p)
              => LET f == frame[p]
                     row == stmts[Unwrap(f.arg).financial_stmt.id]
                 IN /\ f.pc \in {"save_stmt", "done"}
                    /\ f.pc = "done" => f.outcome = "Db" /\ f.bo = None
                    /\ f.sealed = Some(Unwrap(f.closing_posting).id)
                    /\ Unwrap(f.sealed) \in DOMAIN postings
                    /\ postings[Unwrap(f.sealed)]
                          = PostingMapper_to_model(Unwrap(f.closing_posting))
                    /\ row.stmt_status = "Simulated"
                    /\ row.posting_id = None
                    /\ stmts = Pre(p).stmts
    /\ \A r \in Rows(stmts) :
          (r.stmt_status = "Closed" /\ IsSome(r.posting_id))
              => Unwrap(r.posting_id) \in DOMAIN postings

\* a close_stmt has returned after its statement save failed
C16_Witness ==
    \E p \in SeqProcs : SealedOnly(p) /\ frame[p].pc = "done"

\* the close_stmt call of p on the statement id has returned the closed statement
ClosedBy(p, id) ==
    /\ Returned(p, "close_stmt") /\ frame[p].outcome = "Ok"
    /\ Unwrap(frame[p].arg).financial_stmt.id = id

\* the close_stmt call of p on the statement id has passed the status check and
\* has not saved the row
Closing(p, id) ==
    /\ frame[p].op = "close_stmt"
    /\ frame[p].pc \in {"link", "save_posting", "save_stmt"}
    /\ Unwrap(frame[p].arg).financial_stmt.id = id

\* C17: a close_stmt call that has read a statement's row as Simulated goes on
\* although another call closes the statement meanwhile; when two calls on one
\* statement have both succeeded, two distinct sealing postings of the statement
\* are in the posting store, and the row carries the posting_id of the call that
\* saved it last.
C17_CloseRace ==
    \A p \in Procs, q \in Procs, id \in DOMAIN stmts :
        (p # q /\ ClosedBy(p, id))
            => LET mine == Unwrap(frame[p].closing_posting).id
                   theirs == Unwrap(frame[q].closing_posting).id
               IN /\ Closing(q, id)
                    => /\ stmts[id].stmt_status = "Closed"
                       /\ stmts[id].posting_id = Some(mine)
                       /\ Unwrap(frame[q].stmt).stmt_status = "Simulated"
                       /\ ENABLED (close_stmt_link(q) \/ close_stmt_save_posting(q)
                                     \/ close_stmt_save_stmt(q))
                  /\ ClosedBy(q, id)
                    => /\ mine # theirs
                       /\ {mine, theirs} \subseteq DOMAIN postings
                       /\ postings[mine].pst_type = "BalStmt"
                       /\ postings[theirs].pst_type = "BalStmt"
                       /\ postings[mine].pst_time = stmts[id].pst_time
                       /\ postings[theirs].pst_time = stmts[id].pst_time
                       /\ stmts[id].stmt_status = "Closed"
                       /\ stmts[id].posting_id \in {Some(mine), Some(theirs)}

\* both callers have closed the same statement
C17_Witness ==
    \E id \in DOMAIN stmts : ClosedBy("p1", id) /\ ClosedBy("p2", id)

\* the create_stmt call of p for the account has returned a statement built
\* without a Closed statement to start from
Created(p, account_id) ==
    /\ Returned(p, "create_stmt") /\ frame[p].outcome = "Ok"
    /\ Unwrap(frame[p].account).id = account_id
    /\ ~IsSome(frame[p].baseline)

\* C18: a create_stmt call for an account on record, its storage accesses
\* succeeding, is never kept from its next step and returns a statement whatever
\* the other caller does; and when two calls for one account that started
\* without a Closed statement have both returned, the account has two rows with
\* distinct ids, each with the sums of all the account's lines up to its ref_time.
C18_ConcurrentCreates ==
    /\ \A p \in Procs :
          LET f == frame[p]
          IN (f.op = "create_stmt" /\ IsSome(f.account)
              /\ IsSome(load_ledger_account(Unwrap(f.account).id)))
                => /\ f.pc = "done" => f.outcome = "Ok"
                   /\ f.pc # "done"
                        => ENABLED (\/ refresh_statement(p) /\ Succeeds(p)
                                    \/ stmt_return(p) /\ Succeeds(p)
                                    \/ create_stmt_save(p) /\ Succeeds(p))
    /\ \A p \in Procs, q \in Procs, a \in AccountIds :
          (p # q /\ Created(p, a) /\ Created(q, a))
              => LET i == Unwrap(frame[p].bo).financial_stmt.id
                     j == Unwrap(frame[q].bo).financial_stmt.id
                 IN /\ i # j
                    /\ {i, j} \subseteq DOMAIN stmts
                    /\ stmts[i].account_id = a /\ stmts[j].account_id = a
                    /\ stmts[i].total_debit = SumDebit(LinesOf(a, 0, frame[p].ref_time))
                    /\ stmts[i].total_credit = SumCredit(LinesOf(a, 0, frame[p].ref_time))
                    /\ stmts[j].total_debit = SumDebit(LinesOf(a, 0, frame[q].ref_time))
                    /\ stmts[j].total_credit = SumCredit(LinesOf(a, 0, frame[q].ref_time))

\* two create_stmt calls, each begun before the other saved its row, have left
\* two rows that both count a line
C18_Witness ==
    \E a \in AccountIds :
        /\ Created("p1", a) /\ Created("p2", a)
        /\ Unwrap(frame["p1"].bo).financial_stmt.id \notin DOMAIN Pre("p2").stmts
        /\ Unwrap(frame["p2"].bo).financial_stmt.id \notin DOMAIN Pre("p1").stmts
        /\ frame["p1"].gathered # <<>>
        /\ \A i \in 1..Len(frame["p1"].gathered) :
              \E j \in 1..Len(frame["p2"].gathered) :
                  frame["p2"].gathered[j] = frame["p1"].gathered[i]

\* C20: in every ledger at most one posting has no antecedent, and no two
\* postings name the same antecedent.
C20_LinearChain ==
    \A l \in Ledgers :
        /\ Cardinality({r \in InLedger(postings, l) : ~IsSome(r.antecedent_id)}) <= 1
        /\ \A r1 \in InLedger(postings, l), r2 \in InLedger(postings, l) :
              (r1.id # r2.id /\ IsSome(r1.antecedent_id))
                  => r1.antecedent_id # r2.antecedent_id

\* C19: a read_stmt that starts from a Closed statement whose totals are the sums
\* of all the account's lines up to its effective time returns the sums of all
\* the account's lines up to ref_time: every line is counted once.
C19_IncrementalAgrees ==
    \A p \in SeqProcs :
        LET f == frame[p]
            a == Unwrap(f.account).id
            base == Pre(p).stmts[Unwrap(f.baseline)]
        IN (/\ Returned(p, "read_stmt") /\ f.outcome = "Ok" /\ IsSome(f.baseline)
            /\ base.total_debit = SumDebit(LinesOf(a, 0, base.pst_time))
            /\ base.total_credit = SumCredit(LinesOf(a, 0, base.pst_time)))
              => /\ Unwrap(f.bo).total_debit = SumDebit(LinesOf(a, 0, f.ref_time))
                 /\ Unwrap(f.bo).total_credit = SumCredit(LinesOf(a, 0, f.ref_time))

=============================================================================
